---- MODULE Spec2Model ----
(***************************************************************************)
(* Batch job orchestration of gdc/main_batch.py: main(args) walks the      *)
(* index list of the split file and runs GDC_and_save once per index,      *)
(* either in a sequential loop (args.threads <= 1) or through a            *)
(* multiprocessing.Pool (args.threads > 1).                                *)
(*                                                                         *)
(* The correction routine GDC, np.load and Calibration are external; the   *)
(* variable scene fixes, per index, whether loading the inputs raises,     *)
(* whether GDC raises, or whether both return.                             *)
(***************************************************************************)
EXTENDS Integers, Sequences, FiniteSets, TLC

\* ---------------------------------------------------------------- bounds
MaxIdx == 1
MaxLen == 3
MaxThreads == 2
MaxRuns == 2

Indices == 0..MaxIdx

VARIABLES
    idx_list,   \* main: idx_list, the parsed split file
    threads,    \* args.threads
    scene,      \* per index: behaviour of np.load/Calibration and of GDC
    files,      \* the output directory: file name -> content
    files0,     \* the output directory as it was when the run started
    phase,      \* position of main()
    pos,        \* loop position in idx_list (dispatch) or in res (report)
    res,        \* the GDC_and_save calls of the run, in call order
    pool,       \* the multiprocessing.Pool
    pbar,       \* tqdm counter n
    printed,    \* indices printed by the final loop
    uncaught,   \* the exception that left main(), if any
    run,        \* number of the current run of main()
    prev        \* summary of the previous run

vars == <<idx_list, threads, scene, files, files0, phase, pos, res, pool,
          pbar, printed, uncaught, run, prev>>

\* ------------------------------------------------------------ file names
RECURSIVE Pow10(_)
Pow10(n) == IF n = 0 THEN 1 ELSE 10 * Pow10(n - 1)

\* "{:06d}".format(idx) for 0 <= idx < 10^6: six decimal digits
Fmt06(idx) == [k \in 1..6 |-> (idx \div Pow10(6 - k)) % 10]

\* A mutation of SavePath that formats a constant instead of idx
SavePathConstant(idx) == [stem |-> Fmt06(0), ext |-> <<>>]

\* osp.join(args.output_path, "{:06d}".format(idx)): a file name inside
\* output_path, as its stem and its sequence of extensions
SavePath(idx) == [stem |-> Fmt06(idx), ext |-> <<>>]

\* np.save appends ".npy" to a file name that does not end with it
NpSaveName(path) ==
    IF Len(path.ext) > 0 /\ path.ext[Len(path.ext)] = ".npy" THEN path
    ELSE [path EXCEPT !.ext = Append(path.ext, ".npy")]

\* the name tested by osp.exists(save_path + '.npy')
ExistsName(idx) ==
    [SavePath(idx) EXCEPT !.ext = Append(SavePath(idx).ext, ".npy")]

Content(fs, name) == IF name \in DOMAIN fs THEN fs[name] ELSE "absent"

Exists(fs, name) == Content(fs, name) # "absent"

WriteFile(fs, name, c) ==
    [n \in DOMAIN fs \cup {name} |-> IF n = name THEN c ELSE fs[n]]

\* np.save opens (creates or truncates) the file before it writes the array
NpSaveOpen(fs, path) == WriteFile(fs, NpSaveName(path), "partial")

NpSaveClose(fs, path) == WriteFile(fs, NpSaveName(path), "corrected")

\* ------------------------------------------------------- external calls
LoadRaises(idx) == scene[idx] = "load_raises"

GDCRaises(idx) == scene[idx] = "gdc_raises"

NoError == [kind |-> "none", idx |-> -1]

\* ------------------------------------------------- options passed to GDC
\* W_tol of the two call sites, in units of 1e-5
W_tol_seq == 3
W_tol_par == 1

\* the keyword arguments of the sequential call: consider_range and verbose
\* are not passed, GDC uses its own defaults
SeqKwds ==
    [W_tol |-> W_tol_seq, recon_tol |-> "args.recon_tol", k |-> "args.k",
     method |-> "args.method", subsample |-> "args.subsample",
     consider_range |-> "default", verbose |-> "default"]

\* the keyword arguments of the call submitted to the pool
ParKwds ==
    [W_tol |-> W_tol_par, recon_tol |-> "args.recon_tol", k |-> "args.k",
     method |-> "args.method", subsample |-> "args.subsample",
     consider_range |-> "args.consider_range", verbose |-> "True"]

\* ---------------------------------------------------------- GDC_and_save
\* A mutation of GDC_and_save that saves in a finally clause
GDC_and_save_finally(fs, save_path, idx) ==
    [st |-> IF GDCRaises(idx) THEN "failed" ELSE "saving",
     files |-> NpSaveOpen(fs, save_path)]

\* func(*args) then np.save(save_path, ...); any exception is re-raised with
\* the formatted trace and np.save is not reached
GDC_and_save(fs, save_path, idx) ==
    IF GDCRaises(idx)
    THEN [st |-> "failed", files |-> fs]
    ELSE [st |-> "saving", files |-> NpSaveOpen(fs, save_path)]

\* ------------------------------------------------------------------ Init
\* the output directory before the first run: each output file is absent or
\* left by earlier work
InitFiles ==
    { [n \in {ExistsName(i) : i \in Indices} |->
            IF n \in {ExistsName(i) : i \in S} THEN "pre" ELSE "absent"]
      : S \in SUBSET Indices }

RECURSIVE SeqsUpTo(_)
SeqsUpTo(n) ==
    IF n = 0 THEN {<<>>}
    ELSE LET shorter == SeqsUpTo(n - 1)
         IN shorter \cup {Append(s, i) : s \in {t \in shorter : Len(t) = n - 1},
                                         i \in Indices}

Range(q) == {q[k] : k \in 1..Len(q)}

\* main() never looks at the files of an index that is not in the list: these
\* are fixed to loadable inputs and no output
Init ==
    /\ idx_list \in SeqsUpTo(MaxLen)
    /\ threads \in 1..MaxThreads
    /\ scene \in [Indices -> {"ok", "gdc_raises", "load_raises"}]
    /\ files \in InitFiles
    /\ \A i \in Indices \ Range(idx_list) :
          scene[i] = "ok" /\ files[ExistsName(i)] = "absent"
    /\ files0 = files
    /\ phase = "Initializing"
    /\ pos = 1
    /\ res = <<>>
    /\ pool = "none"
    /\ pbar = 0
    /\ printed = {}
    /\ uncaught = NoError
    /\ run = 1
    /\ prev = [threads |-> 0, files0 |-> files, files |-> files,
               succ |-> {}, failed |-> {}, options |-> {}]

\* ------------------------------------------------------------- main(args)
\* A mutation of Initialize that rejects an empty index list
InitializeRejectEmpty ==
    /\ phase = "Initializing"
    /\ IF idx_list = <<>>
       THEN /\ phase' = "Aborted"
            /\ uncaught' = [kind |-> "config", idx |-> -1]
       ELSE /\ phase' = "Dispatching"
            /\ UNCHANGED uncaught
    /\ UNCHANGED <<idx_list, threads, scene, files, files0, pos, res, pool,
                   pbar, printed, run, prev>>

\* makedirs(output_path) and the read of the split file; an empty list is
\* accepted like any other
Initialize ==
    /\ phase = "Initializing"
    /\ phase' = "Dispatching"
    /\ UNCHANGED <<idx_list, threads, scene, files, files0, pos, res, pool,
                   pbar, printed, uncaught, run, prev>>

\* One iteration of the sequential loop up to the point where np.save has
\* opened the output file
SeqIter ==
    /\ phase = "Dispatching"
    /\ threads <= 1
    /\ pos <= Len(idx_list)
    /\ \A j \in 1..Len(res) : res[j].st # "saving"
    /\ LET idx == idx_list[pos]
           save_path == SavePath(idx)
       IN IF Exists(files, ExistsName(idx))
          THEN /\ pos' = pos + 1
               /\ pbar' = pbar + 1
               /\ UNCHANGED <<files, res, phase, uncaught>>
          ELSE IF LoadRaises(idx)
          THEN /\ phase' = "Aborted"
               /\ uncaught' = [kind |-> "load", idx |-> idx]
               /\ UNCHANGED <<files, res, pos, pbar>>
          ELSE LET r == GDC_and_save(files, save_path, idx)
               IN /\ res' = Append(res, [idx |-> idx, st |-> r.st,
                                      kwds |-> SeqKwds])
                  /\ files' = r.files
                  /\ IF r.st = "failed"
                     THEN /\ phase' = "Aborted"
                          /\ uncaught' = [kind |-> "gdc", idx |-> idx]
                     ELSE UNCHANGED <<phase, uncaught>>
                  /\ UNCHANGED <<pos, pbar>>
    /\ UNCHANGED <<idx_list, threads, scene, files0, pool, printed, run, prev>>

\* np.save completes; the loop goes to the next index
SeqSaveDone ==
    /\ phase = "Dispatching"
    /\ threads <= 1
    /\ Len(res) > 0
    /\ res[Len(res)].st = "saving"
    /\ files' = NpSaveClose(files, SavePath(res[Len(res)].idx))
    /\ res' = [res EXCEPT ![Len(res)].st = "ok"]
    /\ pos' = pos + 1
    /\ pbar' = pbar + 1
    /\ UNCHANGED <<idx_list, threads, scene, files0, phase, pool, printed,
                   uncaught, run, prev>>

\* The end of the sequential loop
SeqFinish ==
    /\ phase = "Dispatching"
    /\ threads <= 1
    /\ pos > Len(idx_list)
    /\ phase' = "Done"
    /\ UNCHANGED <<idx_list, threads, scene, files, files0, pos, res, pool,
                   pbar, printed, uncaught, run, prev>>

\* pool = Pool(args.threads); res = []; pbar = tqdm(total=len(idx_list))
CreatePool ==
    /\ phase = "Dispatching"
    /\ threads > 1
    /\ pool = "none"
    /\ pool' = "open"
    /\ UNCHANGED <<idx_list, threads, scene, files, files0, phase, pos, res,
                   pbar, printed, uncaught, run, prev>>

\* A mutation of Submit that walks the index list from its end
SubmitFromEnd ==
    /\ phase = "Dispatching"
    /\ threads > 1
    /\ pool = "open"
    /\ pos <= Len(idx_list)
    /\ LET idx == idx_list[Len(idx_list) - pos + 1]
       IN IF LoadRaises(idx)
          THEN /\ phase' = "Aborted"
               /\ uncaught' = [kind |-> "load", idx |-> idx]
               /\ UNCHANGED <<res, pos>>
          ELSE /\ res' = Append(res, [idx |-> idx, st |-> "queued",
                                   kwds |-> ParKwds])
               /\ pos' = pos + 1
               /\ UNCHANGED <<phase, uncaught>>
    /\ UNCHANGED <<idx_list, threads, scene, files, files0, pool, pbar,
                   printed, run, prev>>

\* One iteration of the submission loop: load the inputs, apply_async
Submit ==
    /\ phase = "Dispatching"
    /\ threads > 1
    /\ pool = "open"
    /\ pos <= Len(idx_list)
    /\ LET idx == idx_list[pos]
       IN IF LoadRaises(idx)
          THEN /\ phase' = "Aborted"
               /\ uncaught' = [kind |-> "load", idx |-> idx]
               /\ UNCHANGED <<res, pos>>
          ELSE /\ res' = Append(res, [idx |-> idx, st |-> "queued",
                                   kwds |-> ParKwds])
               /\ pos' = pos + 1
               /\ UNCHANGED <<phase, uncaught>>
    /\ UNCHANGED <<idx_list, threads, scene, files, files0, pool, pbar,
                   printed, run, prev>>

\* pool.close()
ClosePool ==
    /\ phase = "Dispatching"
    /\ threads > 1
    /\ pool = "open"
    /\ pos > Len(idx_list)
    /\ pool' = "closed"
    /\ phase' = "Draining"
    /\ UNCHANGED <<idx_list, threads, scene, files, files0, pos, res, pbar,
                   printed, uncaught, run, prev>>

\* the tasks that occupy a worker of the pool
Busy == {j \in 1..Len(res) : res[j].st = "saving"}

\* A free worker of the pool takes the oldest queued task and runs
\* GDC_and_save up to the point where np.save has opened the output file; a
\* raised exception is stored in the AsyncResult, and no callback is called
\* for it (apply_async is given no error_callback)
WorkerCall(j) ==
    /\ pool \in {"open", "closed"}
    /\ res[j].st = "queued"
    /\ \A k \in 1..(j - 1) : res[k].st # "queued"
    /\ Cardinality(Busy) < threads
    /\ LET r == GDC_and_save(files, SavePath(res[j].idx), res[j].idx)
       IN /\ res' = [res EXCEPT ![j].st = r.st]
          /\ files' = r.files
    /\ UNCHANGED <<idx_list, threads, scene, files0, phase, pos, pool, pbar,
                   printed, uncaught, run, prev>>

\* np.save completes, the task returns and callback=update advances pbar
WorkerSaveDone(j) ==
    /\ pool \in {"open", "closed"}
    /\ res[j].st = "saving"
    /\ files' = NpSaveClose(files, SavePath(res[j].idx))
    /\ res' = [res EXCEPT ![j].st = "ok"]
    /\ pbar' = pbar + 1
    /\ UNCHANGED <<idx_list, threads, scene, files0, phase, pos, pool,
                   printed, uncaught, run, prev>>

\* A mutation of JoinPool that does not wait for the tasks
JoinPoolNoWait ==
    /\ phase = "Draining"
    /\ pool = "closed"
    /\ pool' = "joined"
    /\ phase' = "Reporting"
    /\ pos' = 1
    /\ UNCHANGED <<idx_list, threads, scene, files, files0, res, pbar,
                   printed, uncaught, run, prev>>

\* pool.join() returns once every task has finished; pbar is closed
JoinPool ==
    /\ phase = "Draining"
    /\ pool = "closed"
    /\ \A j \in 1..Len(res) : res[j].st \in {"ok", "failed"}
    /\ pool' = "joined"
    /\ phase' = "Reporting"
    /\ pos' = 1
    /\ UNCHANGED <<idx_list, threads, scene, files, files0, res, pbar,
                   printed, uncaught, run, prev>>

\* r.successful()
Successful(r) == r.st = "ok"

\* r.get() of a finished task re-raises the exception the task raised
GetRaises(r) == r.st = "failed"

\* One iteration of: for idx, r in res: if not r.successful(): print(idx, r.get())
Report ==
    /\ phase = "Reporting"
    /\ pos <= Len(res)
    /\ LET r == res[pos]
       IN IF Successful(r)
          THEN /\ pos' = pos + 1
               /\ UNCHANGED <<phase, uncaught, printed>>
          ELSE IF GetRaises(r)
          THEN /\ phase' = "Aborted"
               /\ uncaught' = [kind |-> "gdc", idx |-> r.idx]
               /\ UNCHANGED <<pos, printed>>
          ELSE /\ printed' = printed \cup {r.idx}
               /\ pos' = pos + 1
               /\ UNCHANGED <<phase, uncaught>>
    /\ UNCHANGED <<idx_list, threads, scene, files, files0, res, pool, pbar,
                   run, prev>>

\* The end of the final loop
ParFinish ==
    /\ phase = "Reporting"
    /\ pos > Len(res)
    /\ phase' = "Done"
    /\ UNCHANGED <<idx_list, threads, scene, files, files0, pos, res, pool,
                   pbar, printed, uncaught, run, prev>>

\* The exception leaves main() and the interpreter exits; a pool that is
\* still alive is terminated with its workers
Exit ==
    /\ phase = "Aborted"
    /\ phase' = "Exited"
    /\ pool' = IF pool \in {"open", "closed"} THEN "terminated" ELSE pool
    /\ UNCHANGED <<idx_list, threads, scene, files, files0, pos, res, pbar,
                   printed, uncaught, run, prev>>

\* ----------------------------------------------------------- run results
Terminal == phase \in {"Done", "Exited"}

Succeeded == {res[j].idx : j \in {k \in 1..Len(res) : res[k].st = "ok"}}

Failed == {res[j].idx : j \in {k \in 1..Len(res) : res[k].st = "failed"}}

\* the numeric and algorithmic options of a call
Options(kw) ==
    [W_tol |-> kw.W_tol, recon_tol |-> kw.recon_tol, k |-> kw.k,
     method |-> kw.method, subsample |-> kw.subsample,
     consider_range |-> kw.consider_range]

OptionsUsed == {Options(res[j].kwds) : j \in 1..Len(res)}

\* main() is started again on the same split file and the same inputs, with
\* any pool size, either on the output directory the last run left or on the
\* output directory as it was before that run
Rerun ==
    /\ Terminal
    /\ run < MaxRuns
    /\ run' = run + 1
    /\ prev' = [threads |-> threads, files0 |-> files0, files |-> files,
                succ |-> Succeeded, failed |-> Failed,
                options |-> OptionsUsed]
    /\ threads' \in 1..MaxThreads
    /\ files' \in {files, files0}
    /\ files0' = files'
    /\ phase' = "Initializing"
    /\ pos' = 1
    /\ res' = <<>>
    /\ pool' = "none"
    /\ pbar' = 0
    /\ printed' = {}
    /\ uncaught' = NoError
    /\ UNCHANGED <<idx_list, scene>>

\* the steps of one run of main()
NextRun ==
    \/ Initialize
    \/ SeqIter
    \/ SeqSaveDone
    \/ SeqFinish
    \/ CreatePool
    \/ Submit
    \/ ClosePool
    \/ \E j \in 1..Len(res) : WorkerCall(j)
    \/ \E j \in 1..Len(res) : WorkerSaveDone(j)
    \/ JoinPool
    \/ Report
    \/ ParFinish
    \/ Exit

Next ==
    \/ NextRun
    \/ Rerun

\* a batch that is run and then run again
Spec == Init /\ [][Next]_vars

\* a single run of main()
SpecRun == Init /\ [][NextRun]_vars

\* ------------------------------------------------- the module as a script
\* The state after the imports of lines 9-25, before line 33
InitScript ==
    /\ idx_list \in SeqsUpTo(MaxLen)
    /\ threads \in 1..MaxThreads
    /\ scene \in [Indices -> {"ok", "gdc_raises", "load_raises"}]
    /\ files \in InitFiles
    /\ \A i \in Indices \ Range(idx_list) :
          scene[i] = "ok" /\ files[ExistsName(i)] = "absent"
    /\ files0 = files
    /\ phase = "Imported"
    /\ pos = 1
    /\ res = <<>>
    /\ pool = "none"
    /\ pbar = 0
    /\ printed = {}
    /\ uncaught = NoError
    /\ run = 1
    /\ prev = [threads |-> 0, files0 |-> files, files |-> files,
               succ |-> {}, failed |-> {}, options |-> {}]

\* signal.signal(signal.SIGSEGV, sig_handler)
InstallHandler ==
    /\ phase = "Imported"
    /\ phase' = "HandlerInstalled"
    /\ UNCHANGED <<idx_list, threads, scene, files, files0, pos, res, pool,
                   pbar, printed, uncaught, run, prev>>

\* os.kill(os.getpid(), signal.SIGSEGV): the signal is delivered to the
\* process itself and its Python handler is pending
KillSelf ==
    /\ phase = "HandlerInstalled"
    /\ phase' = "SignalPending"
    /\ UNCHANGED <<idx_list, threads, scene, files, files0, pos, res, pool,
                   pbar, printed, uncaught, run, prev>>

\* The interpreter runs the pending handler before the next statement of the
\* module: sig_handler prints and calls exit(), which raises SystemExit
sig_handler ==
    /\ phase = "SignalPending"
    /\ phase' = "Exited"
    /\ uncaught' = [kind |-> "SystemExit", idx |-> -1]
    /\ UNCHANGED <<idx_list, threads, scene, files, files0, pos, res, pool,
                   pbar, printed, run, prev>>

\* the steps of the module level; parser.parse_args() and main(args) of lines
\* 115-117 come after line 34, which the interpreter never leaves
NextScript ==
    \/ InstallHandler
    \/ KillSelf
    \/ sig_handler

\* the module executed as a script
SpecScript == InitScript /\ [][NextScript]_vars

TypeOK ==
    /\ phase \in {"Imported", "HandlerInstalled", "SignalPending",
                  "Initializing", "Dispatching", "Draining", "Reporting",
                  "Done", "Aborted", "Exited"}
    /\ pool \in {"none", "open", "closed", "joined", "terminated"}
    /\ pos \in 1..(MaxLen + 1)
    /\ pbar \in 0..MaxLen
    /\ run \in 1..MaxRuns
    /\ \A j \in 1..Len(res) :
          res[j].st \in {"queued", "saving", "ok", "failed"}

\* ------------------------------------------------------------ properties
OutName(idx) == ExistsName(idx)

InList == Range(idx_list)

\* the indices of the list whose output did not exist when the run started
NotSkipped == {idx \in InList : ~Exists(files0, OutName(idx))}

\* the correction routine has been called for idx in this run
Called(idx) ==
    \E j \in 1..Len(res) :
        res[j].idx = idx /\ res[j].st \in {"saving", "ok", "failed"}

\* a GDC_and_save call for idx has reached its outcome
Settled(idx) ==
    \E j \in 1..Len(res) : res[j].idx = idx /\ res[j].st \in {"ok", "failed"}

\* idx is shown to the user with its trace: printed by the final loop, or
\* carried by the exception that ended the run
Reported(idx) ==
    idx \in printed \/ (uncaught.kind # "none" /\ uncaught.idx = idx)

NoLoadFailure == \A idx \in InList : ~LoadRaises(idx)

NoGDCFailure == \A idx \in InList : ~GDCRaises(idx)

\* C1: an index whose output existed when the run started gets no call of the
\* correction routine and its output file keeps its content, with every pool
\* size.
C1_ExistingOutputSkipped ==
    \A idx \in Indices :
        Exists(files0, OutName(idx)) =>
            /\ ~Called(idx)
            /\ Content(files, OutName(idx)) = Content(files0, OutName(idx))

\* C2: when the inputs load, a raising correction routine never makes an
\* exception leave main(), and at the end of the run every index that was
\* not skipped has reached its own outcome.
C2_FailureIsolated ==
    (Terminal /\ NoLoadFailure) =>
        /\ uncaught.kind # "gdc"
        /\ \A idx \in NotSkipped : Settled(idx)

\* C3: when the inputs load, a run never ends abnormally, however many
\* correction calls raise and whatever the pool size: neither the dispatch
\* nor the final reporting loop raises.
C3_RunTerminatesNormally ==
    NoLoadFailure => phase \notin {"Aborted", "Exited"}

\* C4: when the inputs load, at the end of a run every index that was not
\* skipped has a persisted output or a reported failure, and every failed
\* index is reported.
C4_NoSilentIndex ==
    (Terminal /\ NoLoadFailure) =>
        /\ \A idx \in NotSkipped :
              Content(files, OutName(idx)) = "corrected" \/ Reported(idx)
        /\ \A idx \in Failed : Reported(idx)

\* C5: a run that resumes on the output directory of the previous run, with
\* any pool size, does nothing for an index the previous run processed
\* successfully: no load or correction call, and no write to its output.
C5_IdempotentResume ==
    (run > 1 /\ files0 = prev.files) =>
        \A idx \in prev.succ :
            /\ Content(files0, OutName(idx)) = "corrected"
            /\ \A j \in 1..Len(res) : res[j].idx # idx
            /\ Content(files, OutName(idx)) = "corrected"

\* C6: when the inputs load, a sequential run and a parallel run over the
\* same index list, the same initial output directory and the same behaviour
\* of the correction routine end with the same successful indices and the
\* same failed indices.
C6_OutcomeIndependentOfPool ==
    (run > 1 /\ Terminal /\ NoLoadFailure /\ files0 = prev.files0
        /\ ((prev.threads <= 1) # (threads <= 1))) =>
        /\ Succeeded = prev.succ
        /\ Failed = prev.failed

\* C7: when the correction routine never raises, a failure to load the
\* inputs of one index does not leave main(), and at the end of the run every
\* other index that was not skipped has reached its outcome.
C7_LoadFailureIsolated ==
    NoGDCFailure =>
        /\ uncaught.kind # "load"
        /\ Terminal =>
              \A idx \in NotSkipped : LoadRaises(idx) \/ Settled(idx)

\* C8: in parallel mode, once the pool is joined the progress counter equals
\* the number of submitted jobs, succeeded or failed.
C8_ProgressPerCompletedJob ==
    (threads > 1 /\ pool = "joined") => pbar = Len(res)

C10_NoArtifactOnFailure ==
    /\ DOMAIN files = DOMAIN files0
    /\ \A j \in 1..Len(res) :
          res[j].st = "failed" =>
              files[OutName(res[j].idx)] = files0[OutName(res[j].idx)]
    /\ \A n \in DOMAIN files :
          files[n] # files0[n] =>
              \E j \in 1..Len(res) :
                  /\ n = OutName(res[j].idx)
                  /\ res[j].st \in {"saving", "ok"}

C10_Witness ==
    \E j, k \in 1..Len(res) :
        /\ res[j].st = "failed"
        /\ ~Exists(files, OutName(res[j].idx))
        /\ res[k].st = "ok"
        /\ files[OutName(res[k].idx)] = "corrected"

\* the indices of the GDC_and_save calls of the run, in call order
CallOrder == [j \in 1..Len(res) |-> res[j].idx]

RECURSIVE IsSubseq(_, _)
IsSubseq(s, t) ==
    IF s = <<>> THEN TRUE
    ELSE IF t = <<>> THEN FALSE
    ELSE IF Head(s) = Head(t) THEN IsSubseq(Tail(s), Tail(t))
    ELSE IsSubseq(s, Tail(t))

\* C11: jobs are submitted in the order of the index list: in parallel mode
\* the submitted jobs are a prefix of the list, in sequential mode they follow
\* the list with the skipped indices left out; in sequential mode a job is
\* started only after every earlier job has completed, so that jobs complete
\* in list order and at most one is in progress.
C11_SubmissionInListOrder ==
    /\ threads > 1 =>
          /\ Len(res) <= Len(idx_list)
          /\ CallOrder = SubSeq(idx_list, 1, Len(res))
    /\ threads <= 1 =>
          /\ IsSubseq(CallOrder, SubSeq(idx_list, 1,
                                        IF pos <= Len(idx_list) THEN pos
                                        ELSE Len(idx_list)))
          /\ \A j \in 1..(Len(res) - 1) : res[j].st = "ok"
          /\ Cardinality(Busy) <= 1

C11_Witness ==
    /\ threads > 1
    /\ Len(res) >= 2
    /\ res[1].idx # res[2].idx
    /\ res[1].st = "saving"
    /\ res[2].st = "ok"

\* C12: no output file is ever seen with partial content.
C12_NoPartialOutput ==
    \A n \in DOMAIN files : files[n] # "partial"

\* the file a job writes
WrittenName(j) == NpSaveName(SavePath(res[j].idx))

NoDuplicates ==
    \A a, b \in 1..Len(idx_list) : idx_list[a] = idx_list[b] => a = b

\* C13 (as claimed): in parallel mode two jobs that are in progress at the same
\* time write different files, for every index list.
C13_ConcurrentWritersDisjoint ==
    threads > 1 =>
        \A j, k \in Busy : j # k => WrittenName(j) # WrittenName(k)

\* C13 (amended): in parallel mode, when no index occurs twice in the index
\* list, two jobs that are in progress at the same time write different
\* files.
C13_DistinctIndicesDisjointFiles ==
    (threads > 1 /\ NoDuplicates) =>
        \A j, k \in Busy : j # k => WrittenName(j) # WrittenName(k)

C13_Witness ==
    /\ threads > 1
    /\ NoDuplicates
    /\ \E j, k \in Busy : j # k

Occurrences(idx) == Cardinality({k \in 1..Len(idx_list) : idx_list[k] = idx})

Jobs(idx) == Cardinality({j \in 1..Len(res) : res[j].idx = idx})

\* C14: in parallel mode, when the inputs load and an index occurs more than
\* once in the index list, the run does not end abnormally, each occurrence
\* has become a job of its own once the submission is over, and at the end
\* the index has an outcome from a completed job.
C14_DuplicatesSubmittedPerOccurrence ==
    (threads > 1 /\ NoLoadFailure /\ ~NoDuplicates) =>
        /\ phase \notin {"Aborted", "Exited"}
        /\ phase \in {"Draining", "Reporting", "Done"} =>
              \A idx \in InList : Jobs(idx) = Occurrences(idx)
        /\ phase = "Done" => \A idx \in InList : Settled(idx)

\* C15: once the pool is closed no job is submitted, and every step of the
\* reporting loop is taken with the pool joined and every submitted job at
\* its outcome, which the step leaves as it is.
C15_DrainingIsBarrier ==
    [][/\ phase \in {"Draining", "Reporting"} => CallOrder' = CallOrder
       /\ phase = "Reporting" =>
             /\ pool = "joined"
             /\ \A j \in 1..Len(res) : res[j].st \in {"ok", "failed"}
             /\ res' = res]_vars

C15_Witness ==
    /\ phase = "Reporting"
    /\ Len(res) >= 2
    /\ pos > 1

\* C16: every call of the correction routine is passed the consider range of
\* the run configuration, and the options of the calls of a run are those of
\* the calls of the run before it, whatever the pool sizes of the two runs.
C16_SameOptionsInBothModes ==
    \A j \in 1..Len(res) :
        /\ res[j].kwds.consider_range = "args.consider_range"
        /\ run > 1 => \A o \in prev.options : Options(res[j].kwds) = o

\* C17: the self-sent SIGSEGV and its handler do not end the process at the
\* module level: the script is never terminated by the SystemExit of the
\* handler before main() is entered.
C17_StartupReachesMain ==
    ~(phase = "Exited" /\ uncaught.kind = "SystemExit")

====
